---- MODULE Spec2Model ----
(***************************************************************************)
(* tools/serial_read.py: the serial dump loop of linbus.  A line is a      *)
(* sequence of one-character strings; the device delivers characters       *)
(* through fd, readLine assembles them, main stamps and prints them (raw   *)
(* mode) or parses them as LIN frames and prints the changed bits (diff    *)
(* mode).                                                                  *)
(***************************************************************************)
EXTENDS Integers, Sequences, FiniteSets, TLC

VARIABLES
  diff,            \* FLAGS.diff, fixed at startup
  pc,              \* "ReadingLine" while the loop runs, "failed" after an uncaught IndexError
  fd,              \* characters the device has delivered and the program has not read yet
  wire,            \* every character the device has delivered since the port was opened
  sent,            \* number of bursts the device has delivered
  line,            \* readLine's local list of characters
  clock,           \* timeMillis() - start_time_millis at the last sample
  last_bit_lists,  \* main's dictionary: identifier -> bit list
  stdout_buf,      \* written to sys.stdout, not flushed yet
  sink,            \* what the consumer of stdout has received, one entry per line
  log,             \* every line readLine has returned, with what main left behind after it
  arg,             \* argument of a direct call of a helper function
  ret              \* its result

vars == <<diff, pc, fd, wire, sent, line, clock, last_bit_lists, stdout_buf, sink, log, arg, ret>>

\* ---------------------------------------------------------------- bounds

MaxBursts == 3
MaxDataBytes == 2

\* ------------------------------------------------------------ characters

LF == "\n"
CR == "\r"
SP == " "

HexChars == <<"0", "1", "2", "3", "4", "5", "6", "7", "8", "9",
              "a", "b", "c", "d", "e", "f">>

\* The character class [0-9a-f] of kFrameRegex.
IsHexDigit(c) == \E i \in 1..16 : HexChars[i] = c

\* int(hex_str, 16) for a string of two lowercase hex digits.
HexDigitValue(c) == (CHOOSE i \in 1..16 : HexChars[i] = c) - 1

IntOfHex(hex_str) == 16 * HexDigitValue(hex_str[1]) + HexDigitValue(hex_str[2])

\* bin(as_int)[2:]: the binary digits, no leading zeros ("0" for zero).
RECURSIVE BinDigits(_)
BinDigits(n) ==
  IF n < 2 THEN << (IF n = 1 THEN "1" ELSE "0") >>
  ELSE BinDigits(n \div 2) \o << (IF n % 2 = 1 THEN "1" ELSE "0") >>

\* s.zfill(width) for a string without a sign.
RECURSIVE ZFill(_, _)
ZFill(s, width) == IF Len(s) >= width THEN s ELSE ZFill(<<"0">> \o s, width)

ByteWidth == 8

\* bin(as_int)[2:] without zfill(8).
RECURSIVE hexListToBitList_NoZFill(_)
hexListToBitList_NoZFill(hex_list) ==
  IF hex_list = <<>> THEN <<>>
  ELSE BinDigits(IntOfHex(Head(hex_list))) \o hexListToBitList_NoZFill(Tail(hex_list))

RECURSIVE hexListToBitList(_)
hexListToBitList(hex_list) ==
  IF hex_list = <<>> THEN <<>>
  ELSE LET as_int  == IntOfHex(Head(hex_list))
           bin_str == ZFill(BinDigits(as_int), ByteWidth)
       IN  bin_str \o hexListToBitList(Tail(hex_list))

\* ---------------------------------------------------------------- parser

\* [0-9a-f]{2} at position i of s.
MatchHex2(s, i) == i + 1 <= Len(s) /\ IsHexDigit(s[i]) /\ IsHexDigit(s[i + 1])

\* " [0-9a-f]{2}" at position i of s.
MatchSpHex2(s, i) == i <= Len(s) /\ s[i] = SP /\ MatchHex2(s, i + 1)

\* The greedy (?: [0-9a-f]{2})+ : how many groups match in a row from i.
RECURSIVE GreedyGroups(_, _)
GreedyGroups(s, i) == IF MatchSpHex2(s, i) THEN 1 + GreedyGroups(s, i + 3) ELSE 0

\* The pattern without its "$".
MatchEnd_Unanchored(s, i) == TRUE

\* "$" without re.MULTILINE: the end of the string, or just before a line
\* feed that is the last character of the string.
MatchEnd(s, i) == i = Len(s) + 1 \/ (i = Len(s) /\ s[i] = LF)

\* The numbers n of data groups with which kFrameRegex matches s: n groups,
\* then " " and the checksum group, then "$".
FrameMatches(s) ==
  IF ~MatchHex2(s, 1) THEN {}
  ELSE { n \in 1..GreedyGroups(s, 3) :
           MatchSpHex2(s, 3 + 3 * n) /\ MatchEnd(s, 6 + 3 * n) }

\* Backtracking tries the longest repetition first.
Max(S) == CHOOSE n \in S : \A m \in S : m <= n

\* str.split(): the maximal runs of non-blank characters.
RECURSIVE Split(_, _)
Split(s, word) ==
  IF s = <<>> THEN (IF word = <<>> THEN <<>> ELSE <<word>>)
  ELSE IF Head(s) \in {SP, LF, CR}
       THEN (IF word = <<>> THEN <<>> ELSE <<word>>) \o Split(Tail(s), <<>>)
       ELSE Split(Tail(s), Append(word, Head(s)))

None == [type |-> "None"]

\* No helper has been called directly, or the call has not returned yet.
NoCall == [type |-> "NoCall"]

LinFrame(id, data, checksum) ==
  [type |-> "LinFrame", id |-> id, data |-> data, checksum |-> checksum]

\* The data taken up to the end of the line: the checksum group counted in.
parseLine_DataWithChecksum(s) ==
  IF FrameMatches(s) = {} THEN None
  ELSE LET n == Max(FrameMatches(s))
       IN  LinFrame(SubSeq(s, 1, 2),
                    Split(SubSeq(s, 3, 5 + 3 * n), <<>>),
                    SubSeq(s, 4 + 3 * n, 5 + 3 * n))

parseLine(s) ==
  IF FrameMatches(s) = {} THEN None
  ELSE LET n == Max(FrameMatches(s))
       IN  LinFrame(SubSeq(s, 1, 2),
                    Split(SubSeq(s, 3, 2 + 3 * n), <<>>),
                    SubSeq(s, 4 + 3 * n, 5 + 3 * n))

\* ------------------------------------------------------------ formatting

RECURSIVE DecDigits(_)
DecDigits(n) ==
  IF n < 10 THEN << HexChars[n + 1] >>
  ELSE DecDigits(n \div 10) \o << HexChars[(n % 10) + 1] >>

\* "%0<width>d" % n for n >= 0.
FormatZeroPadded(n, width) == ZFill(DecDigits(n), width)

MillisPerSecond == 1000
SecondsWidth == 5
MillisWidth == 3

\* "%05d.%d": the fraction printed without its padding.
formatRelativeTimeMillis_UnpaddedFraction(millis) ==
  LET seconds         == millis \div MillisPerSecond
      millis_fraction == millis % MillisPerSecond
  IN  FormatZeroPadded(seconds, SecondsWidth) \o <<".">> \o DecDigits(millis_fraction)

formatRelativeTimeMillis(millis) ==
  LET seconds         == millis \div MillisPerSecond
      millis_fraction == millis % MillisPerSecond
  IN  FormatZeroPadded(seconds, SecondsWidth) \o <<".">>
        \o FormatZeroPadded(millis_fraction, MillisWidth)

\* The lists compared by length first: any difference in length fails.
diffRaises_AnyMismatch(old_bit_list, new_bit_list) == Len(new_bit_list) # Len(old_bit_list)

\* diffBitLists raises IndexError when it reaches an index past old_bit_list.
diffRaises(old_bit_list, new_bit_list) == Len(new_bit_list) > Len(old_bit_list)

\* result.append(old_bit_list[idx]) in place of result.append(new_val).
diffBitLists_OldValue(old_bit_list, new_bit_list) ==
  [idx \in 1..Len(new_bit_list) |->
     IF new_bit_list[idx] # old_bit_list[idx] THEN old_bit_list[idx] ELSE "-"]

diffBitLists(old_bit_list, new_bit_list) ==
  [idx \in 1..Len(new_bit_list) |->
     IF new_bit_list[idx] # old_bit_list[idx] THEN new_bit_list[idx] ELSE "-"]

RECURSIVE insertSeperators(_, _, _)
insertSeperators(str, n, sep) ==
  IF Len(str) <= n THEN str
  ELSE SubSeq(str, 1, n) \o sep \o insertSeperators(SubSeq(str, n + 1, Len(str)), n, sep)

NibbleWidth == 4
GroupWidth == 10

\* The second pass counting bits of the mask instead of characters of the
\* already separated string.
groupDiff_CountsBits(diff_bit_list) ==
  insertSeperators(insertSeperators(diff_bit_list, NibbleWidth, <<SP>>),
                   ByteWidth, <<"|", SP>>)

\* main, lines 191-192: the two passes over the diff string.
groupDiff(diff_bit_list) ==
  insertSeperators(insertSeperators(diff_bit_list, NibbleWidth, <<SP>>),
                   GroupWidth, <<"|", SP>>)

\* "%s  %s\n" % (timestamp, line)
rawOutLine(timestamp, s) == timestamp \o <<SP, SP>> \o s \o <<LF>>

\* "%s  %s: | %s |\n" % (timestamp, id, diff_str)
diffOutLine(timestamp, id, diff_str) ==
  timestamp \o <<SP, SP>> \o id \o <<":", SP, "|", SP>> \o diff_str \o <<SP, "|", LF>>

\* ----------------------------------------------------------------- input

\* A readLine that also leaves out carriage returns.
RECURSIVE readLine_DropsCR(_, _)
readLine_DropsCR(acc, chars) ==
  IF chars = <<>> THEN [done |-> FALSE, line |-> acc, rest |-> <<>>]
  ELSE IF Head(chars) = LF THEN [done |-> TRUE, line |-> acc, rest |-> Tail(chars)]
  ELSE IF Head(chars) = CR THEN readLine_DropsCR(acc, Tail(chars))
  ELSE readLine_DropsCR(Append(acc, Head(chars)), Tail(chars))

\* readLine, lines 110-116: readChar after readChar from the characters
\* delivered so far, appending to line until a line feed is read.  done is
\* FALSE when the characters run out first: readChar then blocks in select.
RECURSIVE readLine(_, _)
readLine(acc, chars) ==
  IF chars = <<>> THEN [done |-> FALSE, line |-> acc, rest |-> <<>>]
  ELSE IF Head(chars) = LF THEN [done |-> TRUE, line |-> acc, rest |-> Tail(chars)]
  ELSE readLine(Append(acc, Head(chars)), Tail(chars))

\* What the device is seen to deliver between two moments the program waits
\* for it: frame lines, malformed lines, and pieces that end mid-line.
Bursts ==
  { <<"2","a",SP,"0","1",SP,"f","f",LF>>,
    <<"2","a",SP,"0","2",SP,"f","f",LF>>,
    <<"2","a",SP,"0","1",SP,"f","e",LF>>,
    <<"2","b",SP,"0","1",SP,"f","f",LF>>,
    <<"2","a",SP,"0","1",SP,"8","0",SP,"f","f",LF>>,
    <<"2","a",SP,"0","2",SP,"8","0",SP,"f","f",LF>>,
    <<"2","a",SP,"0","1",SP,"E","R","R",LF>>,
    <<"2","a",SP,"0","3",SP,"f","f",CR,LF>>,
    <<"2","a",SP,"0">>,
    <<"2",SP,"f","f",LF,LF>> }

\* The clock may or may not have advanced between two samples.
ClockSteps == {0, 1}

\* ------------------------------------------------------------- main loop

\* main before its first readLine: lines 163-166.
MainInit ==
  /\ diff \in BOOLEAN
  /\ pc = "ReadingLine"
  /\ fd = <<>>
  /\ wire = <<>>
  /\ sent = 0
  /\ line = <<>>
  /\ clock = 0
  /\ last_bit_lists = <<>>
  /\ stdout_buf = <<>>
  /\ sink = <<>>
  /\ log = <<>>

Init ==
  /\ MainInit
  /\ arg = NoCall
  /\ ret = NoCall

DeviceSend(burst) ==
  /\ pc = "ReadingLine"
  /\ fd = <<>>
  /\ sent < MaxBursts
  /\ fd' = burst
  /\ wire' = wire \o burst
  /\ sent' = sent + 1
  /\ UNCHANGED <<diff, pc, line, clock, last_bit_lists, stdout_buf, sink, log, arg, ret>>

\* readLine has consumed everything delivered and waits for more.
ReadBlocked ==
  /\ pc = "ReadingLine"
  /\ fd # <<>>
  /\ ~readLine(line, fd).done
  /\ line' = readLine(line, fd).line
  /\ fd' = <<>>
  /\ UNCHANGED <<diff, pc, wire, sent, clock, last_bit_lists, stdout_buf, sink, log, arg, ret>>

\* readLine returns (line 168) and the clock is sampled (line 169).
LineRead(step) ==
  /\ pc = "ReadingLine"
  /\ fd # <<>>
  /\ readLine(line, fd).done
  /\ fd' = readLine(line, fd).rest
  /\ line' = <<>>
  /\ clock' = clock + step
  /\ UNCHANGED <<diff, wire, sent, arg, ret>>

TheLine == readLine(line, fd).line

\* sys.stdout.write(out_line) without the flush: the line stays in the buffer.
WriteAndFlush_NoFlush(out_line) ==
  /\ stdout_buf' = Append(stdout_buf, out_line)
  /\ sink' = sink

\* sys.stdout.write(out_line); sys.stdout.flush()
WriteAndFlush(out_line) ==
  LET written == Append(stdout_buf, out_line)
  IN  /\ sink' = sink \o written
      /\ stdout_buf' = <<>>

NoOutput == UNCHANGED <<stdout_buf, sink>>

\* One entry per line read: the line, the number of lines the consumer has
\* received once it is handled, the dictionary and the loop's position then.
Logged ==
  log' = Append(log, [line |-> TheLine, nout |-> Len(sink'),
                      hist |-> last_bit_lists', pc |-> pc'])

\* Line 183: id not in last_bit_lists.
NotSeen(id) == id \notin DOMAIN last_bit_lists

\* "new_bit_list is old_bit_list": two lists built apart are never identical.
SameBits_Identity(new_bit_list, old_bit_list) == FALSE

\* Line 188: new_bit_list == old_bit_list.
SameBits(new_bit_list, old_bit_list) == new_bit_list = old_bit_list

\* One last frame kept for all identifiers instead of one per identifier.
SetHistory_OnlyLatest(id, bit_list) ==
  last_bit_lists' = [k \in {id} |-> bit_list]

SetHistory(id, bit_list) ==
  last_bit_lists' = [k \in DOMAIN last_bit_lists \cup {id} |->
                       IF k = id THEN bit_list ELSE last_bit_lists[k]]

\* Raw mode that prints only the lines that parse as frames.
RawEmit_OnlyFrames(step) ==
  /\ LineRead(step)
  /\ ~diff
  /\ IF parseLine(TheLine) = None
     THEN NoOutput
     ELSE WriteAndFlush(rawOutLine(formatRelativeTimeMillis(clock'), TheLine))
  /\ UNCHANGED <<pc, last_bit_lists>>
  /\ Logged

\* Lines 172-176.
RawEmit(step) ==
  /\ LineRead(step)
  /\ ~diff
  /\ WriteAndFlush(rawOutLine(formatRelativeTimeMillis(clock'), TheLine))
  /\ UNCHANGED <<pc, last_bit_lists>>
  /\ Logged

\* An unparsable line dumped as in raw mode instead of skipped.
SkipNotFrame_DumpsLine(step) ==
  /\ LineRead(step)
  /\ diff
  /\ parseLine(TheLine) = None
  /\ WriteAndFlush(rawOutLine(formatRelativeTimeMillis(clock'), TheLine))
  /\ UNCHANGED <<pc, last_bit_lists>>
  /\ Logged

\* Lines 178-180.
SkipNotFrame(step) ==
  /\ LineRead(step)
  /\ diff
  /\ parseLine(TheLine) = None
  /\ NoOutput
  /\ UNCHANGED <<pc, last_bit_lists>>
  /\ Logged

\* A first sighting printed as a diff against nothing: all its bits shown.
FirstSighting_Emits(step) ==
  /\ LineRead(step)
  /\ diff
  /\ parseLine(TheLine) # None
  /\ LET frame == parseLine(TheLine)
     IN  /\ NotSeen(frame.id)
         /\ SetHistory(frame.id, hexListToBitList(frame.data))
         /\ WriteAndFlush(diffOutLine(
              formatRelativeTimeMillis(clock'), frame.id,
              groupDiff(hexListToBitList(frame.data))))
  /\ UNCHANGED pc
  /\ Logged

\* Lines 181-185.
FirstSighting(step) ==
  /\ LineRead(step)
  /\ diff
  /\ parseLine(TheLine) # None
  /\ LET frame == parseLine(TheLine)
     IN  /\ NotSeen(frame.id)
         /\ SetHistory(frame.id, hexListToBitList(frame.data))
  /\ NoOutput
  /\ UNCHANGED pc
  /\ Logged

\* Lines 186-189.
SkipUnchanged(step) ==
  /\ LineRead(step)
  /\ diff
  /\ parseLine(TheLine) # None
  /\ LET frame        == parseLine(TheLine)
         new_bit_list == hexListToBitList(frame.data)
     IN  /\ ~NotSeen(frame.id)
         /\ SameBits(new_bit_list, last_bit_lists[frame.id])
         /\ SetHistory(frame.id, new_bit_list)
  /\ NoOutput
  /\ UNCHANGED pc
  /\ Logged

\* Line 187 left out: the history keeps the frame that was printed last.
EmitDiff_KeepsOldHistory(step) ==
  /\ LineRead(step)
  /\ diff
  /\ parseLine(TheLine) # None
  /\ LET frame        == parseLine(TheLine)
         new_bit_list == hexListToBitList(frame.data)
     IN  /\ ~NotSeen(frame.id)
         /\ ~SameBits(new_bit_list, last_bit_lists[frame.id])
         /\ ~diffRaises(last_bit_lists[frame.id], new_bit_list)
         /\ WriteAndFlush(diffOutLine(
              formatRelativeTimeMillis(clock'), frame.id,
              groupDiff(diffBitLists(last_bit_lists[frame.id], new_bit_list))))
  /\ UNCHANGED <<pc, last_bit_lists>>
  /\ Logged

\* Lines 186-195.
EmitDiff(step) ==
  /\ LineRead(step)
  /\ diff
  /\ parseLine(TheLine) # None
  /\ LET frame        == parseLine(TheLine)
         new_bit_list == hexListToBitList(frame.data)
     IN  /\ ~NotSeen(frame.id)
         /\ ~SameBits(new_bit_list, last_bit_lists[frame.id])
         /\ ~diffRaises(last_bit_lists[frame.id], new_bit_list)
         /\ SetHistory(frame.id, new_bit_list)
         /\ WriteAndFlush(diffOutLine(
              formatRelativeTimeMillis(clock'), frame.id,
              groupDiff(diffBitLists(last_bit_lists[frame.id], new_bit_list))))
  /\ UNCHANGED pc
  /\ Logged

\* Lines 186-190: old_bit_list[idx] past the end of the stored list; the
\* IndexError is not caught and the program dies.
DiffIndexError(step) ==
  /\ LineRead(step)
  /\ diff
  /\ parseLine(TheLine) # None
  /\ LET frame        == parseLine(TheLine)
         new_bit_list == hexListToBitList(frame.data)
     IN  /\ ~NotSeen(frame.id)
         /\ ~SameBits(new_bit_list, last_bit_lists[frame.id])
         /\ diffRaises(last_bit_lists[frame.id], new_bit_list)
         /\ SetHistory(frame.id, new_bit_list)
  /\ NoOutput
  /\ pc' = "failed"
  /\ Logged

\* The device and readLine, whatever the mode.
NextInput ==
  \/ \E burst \in Bursts : DeviceSend(burst)
  \/ ReadBlocked

NextRaw ==
  \/ NextInput
  \/ \E step \in ClockSteps : RawEmit(step)

NextDiff ==
  \/ NextInput
  \/ \E step \in ClockSteps : SkipNotFrame(step)
  \/ \E step \in ClockSteps : FirstSighting(step)
  \/ \E step \in ClockSteps : SkipUnchanged(step)
  \/ \E step \in ClockSteps : EmitDiff(step)
  \/ \E step \in ClockSteps : DiffIndexError(step)

Next == NextRaw \/ NextDiff

Spec == Init /\ [][Next]_vars

\* The program started without --diff, and with it.
InitRaw == Init /\ diff = FALSE

InitDiff == Init /\ diff = TRUE

SpecRaw == InitRaw /\ [][NextRaw]_vars

SpecDiff == InitDiff /\ [][NextDiff]_vars

\* ------------------------------------------------- the log, read back

\* Number of lines the consumer received while the i-th line was handled.
Emitted(i) == log[i].nout - (IF i = 1 THEN 0 ELSE log[i - 1].nout)

\* The dictionary before the i-th line was handled.
HistBefore(i) == IF i = 1 THEN <<>> ELSE log[i - 1].hist

\* The frame grammar, position by position: k + 1 groups of two lowercase
\* hex digits (k >= 2), single spaces between them, nothing else.
GroupAt(l, g) == SubSeq(l, 3 * g + 1, 3 * g + 2)

InGrammar(l) ==
  \E k \in 2..Len(l) :
    /\ Len(l) = 3 * k + 2
    /\ \A g \in 0..k : IsHexDigit(l[3 * g + 1]) /\ IsHexDigit(l[3 * g + 2])
    /\ \A g \in 1..k : l[3 * g] = SP

LastGroup(l) == (Len(l) - 2) \div 3

IdOf(l) == GroupAt(l, 0)

DataOf(l) == [g \in 1..(LastGroup(l) - 1) |-> GroupAt(l, g)]

ChecksumOf(l) == GroupAt(l, LastGroup(l))

\* The two hex digits of a byte value, and the value of two hex digits.
HexByte(v) == << HexChars[(v \div 16) + 1], HexChars[(v % 16) + 1] >>

ByteValue(hex_str) ==
  CHOOSE v \in { 16 * hi + lo : hi, lo \in 0..15 } : HexByte(v) = hex_str

Pow2(n) == IF n = 0 THEN 1 ELSE IF n = 1 THEN 2 ELSE IF n = 2 THEN 4
           ELSE IF n = 3 THEN 8 ELSE IF n = 4 THEN 16 ELSE IF n = 5 THEN 32
           ELSE IF n = 6 THEN 64 ELSE 128

\* The 8 bits of a byte value, the most significant first: bit j (1 is the
\* first) is the binary digit of weight 2^(8 - j).
BitsOfValue(v) ==
  [j \in 1..8 |-> IF (v \div Pow2(8 - j)) % 2 = 1 THEN "1" ELSE "0"]

\* The expansion of a list of bytes: the bits of each, in byte order.
RECURSIVE ExpectedBits(_)
ExpectedBits(data) ==
  IF Len(data) = 0 THEN <<>>
  ELSE ExpectedBits(SubSeq(data, 1, Len(data) - 1))
         \o BitsOfValue(ByteValue(data[Len(data)]))

\* Indices of the valid frame lines read so far, and of those with one id.
FrameLines == { i \in 1..Len(log) : InGrammar(log[i].line) }

FrameLinesOf(id) == { i \in FrameLines : IdOf(log[i].line) = id }

\* The most recent valid frame line with the identifier of line i that was
\* read before line i; 0 when there is none.
PrevSameId(i) ==
  LET before == { j \in FrameLinesOf(IdOf(log[i].line)) : j < i }
  IN  IF before = {} THEN 0 ELSE Max(before)

\* The output line the i-th input line produced.
OutputOf(i) == sink[log[i].nout]

\* The diff mask an output line of diff mode shows: what follows the ':',
\* without the separators; and the identifier before the ':'.
ColonAt(o) == CHOOSE p \in 1..Len(o) : o[p] = ":"

IsMaskChar(c) == c \in {"0", "1", "-"}

MaskShown(o) == SelectSeq(SubSeq(o, ColonAt(o) + 1, Len(o)), IsMaskChar)

IdShown(o) == SubSeq(o, ColonAt(o) - 2, ColonAt(o) - 1)

\* ------------------------------------------------------------- claims

\* C1: in diff mode, at every moment, the identifiers with a history entry
\* are exactly the identifiers of the valid frame lines read so far, and
\* each entry is the bit expansion of the data bytes of the most recent
\* valid frame line with that identifier, whether or not it produced output.
C1_HistoryIsLatestFrameSeen ==
  diff =>
    /\ DOMAIN last_bit_lists = { IdOf(log[i].line) : i \in FrameLines }
    /\ \A id \in DOMAIN last_bit_lists :
         last_bit_lists[id] = ExpectedBits(DataOf(log[Max(FrameLinesOf(id))].line))

\* A frame that produced output, then a different frame with the same
\* identifier twice: the second produced none and the history is its bits.
C1_Witness ==
  /\ diff
  /\ Len(log) >= 3
  /\ Len(log) \in FrameLines
  /\ LET i  == Len(log)
         id == IdOf(log[i].line)
     IN  /\ Emitted(i) = 0
         /\ \E j \in FrameLinesOf(id) : j < i /\ Emitted(j) = 1
         /\ last_bit_lists[id] = ExpectedBits(DataOf(log[i].line))

\* C2: in diff mode, the first valid frame line read for an identifier
\* produces no output line, whatever its data; once it is handled the
\* identifier's history is its bit sequence.
C2_FirstSightingSilent ==
  diff =>
    \A i \in FrameLines :
      PrevSameId(i) = 0 =>
        /\ Emitted(i) = 0
        /\ IdOf(log[i].line) \notin DOMAIN HistBefore(i)
        /\ log[i].hist[IdOf(log[i].line)] = ExpectedBits(DataOf(log[i].line))

\* An identifier first seen after another identifier's frames, with a
\* non-zero data byte, and no output for it.
C2_Witness ==
  /\ diff
  /\ \E i \in FrameLines :
       /\ i > 1
       /\ PrevSameId(i) = 0
       /\ FrameLines \ FrameLinesOf(IdOf(log[i].line)) # {}
       /\ Emitted(i) = 0
       /\ \E p \in 1..8 : log[i].hist[IdOf(log[i].line)][p] = "1"

\* C3: in diff mode, a valid frame whose data bits equal those of the
\* immediately preceding valid frame with the same identifier produces no
\* output line, however often it is repeated and whatever the checksums.
C3_UnchangedSilent ==
  diff =>
    \A i \in FrameLines :
      (/\ PrevSameId(i) # 0
       /\ ExpectedBits(DataOf(log[i].line))
            = ExpectedBits(DataOf(log[PrevSameId(i)].line)))
        => Emitted(i) = 0

\* The same data three times in a row, one of them with another checksum.
C3_Witness ==
  /\ diff
  /\ Len(log) = 3
  /\ FrameLines = {1, 2, 3}
  /\ \A i \in {2, 3} : /\ IdOf(log[i].line) = IdOf(log[1].line)
                       /\ DataOf(log[i].line) = DataOf(log[1].line)
  /\ ChecksumOf(log[2].line) # ChecksumOf(log[3].line)
  /\ sink = <<>>

\* The mask of C4: the new bit where it differs from the old one, '-' elsewhere.
ExpectedMask(old, new) ==
  [p \in 1..Len(new) |-> IF new[p] # old[p] THEN new[p] ELSE "-"]

ChangedFrame(i) ==
  /\ PrevSameId(i) # 0
  /\ Len(DataOf(log[i].line)) = Len(DataOf(log[PrevSameId(i)].line))
  /\ DataOf(log[i].line) # DataOf(log[PrevSameId(i)].line)

\* C4: in diff mode, a valid frame for an already seen identifier with as
\* many data bytes as the previous frame of that identifier and at least one
\* different bit produces exactly one output line, which shows the
\* identifier and the mask new[i] where new[i] /= old[i], '-' elsewhere
\* (old 0000, new 0100: -1--).
C4_ChangedFrameMask ==
  /\ diffBitLists(<<"0", "0", "0", "0">>, <<"0", "1", "0", "0">>) = <<"-", "1", "-", "-">>
  /\ diff =>
       \A i \in FrameLines :
         ChangedFrame(i) =>
           /\ Emitted(i) = 1
           /\ IdShown(OutputOf(i)) = IdOf(log[i].line)
           /\ MaskShown(OutputOf(i))
                = ExpectedMask(ExpectedBits(DataOf(log[PrevSameId(i)].line)),
                               ExpectedBits(DataOf(log[i].line)))

\* A changed frame of two data bytes whose mask has a '1', a '0' and a '-'.
C4_Witness ==
  /\ diff
  /\ \E i \in FrameLines :
       /\ ChangedFrame(i)
       /\ Len(DataOf(log[i].line)) = 2
       /\ Emitted(i) = 1
       /\ \E p, q, r \in 1..Len(MaskShown(OutputOf(i))) :
            /\ MaskShown(OutputOf(i))[p] = "1"
            /\ MaskShown(OutputOf(i))[q] = "0"
            /\ MaskShown(OutputOf(i))[r] = "-"

\* C5: in diff mode, a line that does not match the frame grammar produces
\* no output line, leaves the whole history table as it was, raises no
\* error, and the loop is back at reading the next line.
C5_UnparsableSkipped ==
  diff =>
    \A i \in 1..Len(log) :
      ~InGrammar(log[i].line) =>
        /\ Emitted(i) = 0
        /\ log[i].hist = HistBefore(i)
        /\ log[i].pc = "ReadingLine"

\* A malformed line skipped between two frames of one identifier, with a
\* non-empty history at that moment.
C5_Witness ==
  /\ diff
  /\ Len(log) = 3
  /\ FrameLines = {1, 3}
  /\ log[2].line # <<>>
  /\ log[2].hist # <<>>
  /\ log[2].hist = log[1].hist
  /\ Emitted(3) = 1

\* C6: in raw mode, every line read has produced exactly one output line, in
\* input order: a timestamp, two spaces, the line as read, a line feed;
\* nothing is suppressed, and the history table stays empty.
C6_RawVerbatim ==
  ~diff =>
    /\ Len(sink) = Len(log)
    /\ \A i \in 1..Len(log) :
         /\ log[i].nout = i
         /\ \E m \in 0..clock :
              sink[i] = formatRelativeTimeMillis(m) \o <<SP, SP>> \o log[i].line \o <<LF>>
    /\ last_bit_lists = <<>>

\* A frame line twice, then a malformed line: three output lines.
C6_Witness ==
  /\ ~diff
  /\ Len(log) = 3
  /\ Len(sink) = 3
  /\ InGrammar(log[1].line)
  /\ log[2].line = log[1].line
  /\ ~InGrammar(log[3].line)

\* --------------------------------------------- helpers called directly

\* A helper is called once on arg and returns ret; main is not running.
Called == ret.type = "Return"

HelperInit(inputs) ==
  /\ MainInit
  /\ diff = FALSE
  /\ arg \in { [type |-> "Call", value |-> x] : x \in inputs }
  /\ ret = NoCall

Return(result) ==
  /\ arg.type = "Call"
  /\ ret = NoCall
  /\ ret' = [type |-> "Return", value |-> result]
  /\ UNCHANGED <<diff, pc, fd, wire, sent, line, clock, last_bit_lists, stdout_buf, sink, log, arg>>

\* Lines as readLine returns them (no line feed inside): frame lines of up
\* to MaxDataBytes data bytes, and every line one character away from one
\* (a character replaced, inserted or removed), or with an error marker in
\* place of or after the checksum.
SampleBytes == { <<"0", "1">>, <<"9", "f">> }

RECURSIVE JoinGroups(_)
JoinGroups(groups) ==
  IF Len(groups) = 1 THEN groups[1]
  ELSE groups[1] \o <<SP>> \o JoinGroups(Tail(groups))

RECURSIVE ByteLists(_)
ByteLists(n) ==
  IF n = 0 THEN { <<>> }
  ELSE { Append(l, b) : l \in ByteLists(n - 1), b \in SampleBytes }

FrameTexts ==
  { JoinGroups(<< <<"2", "a">> >> \o data \o << <<"f", "f">> >>) :
      data \in UNION { ByteLists(n) : n \in 0..MaxDataBytes } }

EditChars == {"0", "a", "f", "A", "F", "g", SP, CR, "-"}

ErrMarker == <<SP, "E", "R", "R">>

OneEditFrom(l) ==
  { l, l \o ErrMarker, SubSeq(l, 1, Len(l) - 3) \o ErrMarker }
    \cup { [l EXCEPT ![p] = c] : p \in 1..Len(l), c \in EditChars }
    \cup { SubSeq(l, 1, p - 1) \o <<c>> \o SubSeq(l, p, Len(l)) :
             p \in 1..(Len(l) + 1), c \in EditChars }
    \cup { SubSeq(l, 1, p - 1) \o SubSeq(l, p + 1, Len(l)) : p \in 1..Len(l) }

LinesToParse == UNION { OneEditFrom(l) : l \in FrameTexts }

InitParse == HelperInit(LinesToParse)

CallParseLine == Return(parseLine(arg.value))

SpecParse == InitParse /\ [][CallParseLine]_vars

\* C7: for every line "ID B1 ... Bn CK" of the grammar (n >= 1), parseLine
\* returns the frame with identifier ID (the first group), data B1..Bn in
\* order (the groups between the first and the last) and checksum CK (the
\* last group).
C7_ParseExtractsFields ==
  (Called /\ InGrammar(arg.value)) =>
    /\ ret.value.type = "LinFrame"
    /\ ret.value.id = GroupAt(arg.value, 0)
    /\ Len(ret.value.data) = LastGroup(arg.value) - 1
    /\ \A g \in 1..(LastGroup(arg.value) - 1) : ret.value.data[g] = GroupAt(arg.value, g)
    /\ ret.value.checksum = GroupAt(arg.value, LastGroup(arg.value))

\* A frame line of two different data bytes, parsed.
C7_Witness ==
  /\ Called
  /\ InGrammar(arg.value)
  /\ LastGroup(arg.value) = 3
  /\ GroupAt(arg.value, 1) # GroupAt(arg.value, 2)
  /\ GroupAt(arg.value, 2) # GroupAt(arg.value, 3)
  /\ ret.value.data = <<GroupAt(arg.value, 1), GroupAt(arg.value, 2)>>

\* C8: parseLine returns None for every line (as readLine returns lines)
\* that is not three or more groups of two lowercase hex digits separated
\* by single spaces with nothing before and nothing after: among them a
\* line with identifier and checksum only, a line with an uppercase hex
\* digit, a line ending in an error marker, a line with anything after the
\* checksum group.
C8_ParseRejectsOthers ==
  (Called /\ ~InGrammar(arg.value)) => ret.value = None

\* The four named cases are among the lines parsed, and one of them, a frame
\* followed by an error marker, has been rejected.
C8_Witness ==
  /\ <<"2", "a", SP, "f", "f">> \in LinesToParse
  /\ <<"2", "A", SP, "0", "1", SP, "f", "f">> \in LinesToParse
  /\ <<"2", "a", SP, "0", "1", SP, "E", "R", "R">> \in LinesToParse
  /\ <<"2", "a", SP, "0", "1", SP, "f", "f", CR>> \in LinesToParse
  /\ Called
  /\ arg.value = <<"2", "a", SP, "0", "1", SP, "f", "f", SP, "E", "R", "R">>
  /\ ret.value = None

\* Lists of up to MaxDataBytes two-digit byte strings: at one place every
\* byte value, at the other places the sample bytes.
HexLists ==
  { <<>> } \cup
  UNION { { [l EXCEPT ![k] = HexByte(v)] : l \in ByteLists(n), k \in 1..n, v \in 0..255 } :
            n \in 1..MaxDataBytes }

InitBits == HelperInit(HexLists)

CallHexListToBitList == Return(hexListToBitList(arg.value))

SpecBits == InitBits /\ [][CallHexListToBitList]_vars

\* C9: hexListToBitList maps N two-digit byte strings to exactly 8N bits:
\* the bits 8k..8k+7 are the zero-padded binary representation of the byte
\* at position k, most significant bit first ("ff" -> 11111111,
\* "00" -> 00000000, "0a" -> 00001010).
C9_BitExpansion ==
  /\ hexListToBitList(<< <<"f", "f">> >>) = <<"1", "1", "1", "1", "1", "1", "1", "1">>
  /\ hexListToBitList(<< <<"0", "0">> >>) = <<"0", "0", "0", "0", "0", "0", "0", "0">>
  /\ hexListToBitList(<< <<"0", "a">> >>) = <<"0", "0", "0", "0", "1", "0", "1", "0">>
  /\ Called =>
       /\ Len(ret.value) = 8 * Len(arg.value)
       /\ \A k \in 1..Len(arg.value) :
            SubSeq(ret.value, 8 * (k - 1) + 1, 8 * k) = BitsOfValue(ByteValue(arg.value[k]))

\* Two bytes expanded, the second one below 16 (its binary digits need padding).
C9_Witness ==
  /\ Called
  /\ Len(arg.value) = 2
  /\ Len(ret.value) = 16
  /\ ByteValue(arg.value[2]) \in 1..15
  /\ ByteValue(arg.value[1]) > 127

\* Diff masks of up to MaxDataBytes bytes.
SampleNibbles ==
  { <<"-", "-", "-", "-">>, <<"-", "-", "-", "1">>, <<"0", "-", "-", "-">>,
    <<"-", "1", "0", "-">>, <<"1", "1", "1", "1">> }

MaskBytes == { hi \o lo : hi \in SampleNibbles, lo \in SampleNibbles }

RECURSIVE Masks(_)
Masks(n) ==
  IF n = 0 THEN { <<>> }
  ELSE { m \o b : m \in Masks(n - 1), b \in MaskBytes }

InitGroup == HelperInit(UNION { Masks(n) : n \in 1..MaxDataBytes })

CallGroupDiff == Return(groupDiff(arg.value))

SpecGroup == InitGroup /\ [][CallGroupDiff]_vars

\* Byte k of a mask as its two nibbles with one space between them.
ByteShown(mask, k) ==
  SubSeq(mask, 8 * k - 7, 8 * k - 4) \o <<SP>> \o SubSeq(mask, 8 * k - 3, 8 * k)

RECURSIVE BytesShown(_, _)
BytesShown(mask, n) ==
  IF n = 1 THEN ByteShown(mask, 1)
  ELSE BytesShown(mask, n - 1) \o <<SP, "|", SP>> \o ByteShown(mask, n)

IsNotSeparator(c) == c \notin {SP, "|"}

\* C10: the two passes (a space after every 4 characters, then "| " after
\* every 10 characters of the result) render a mask of 8N characters
\* (N >= 1) as its N bytes, each as two nibbles of 4 characters with one
\* space between, joined by " | "; without the inserted separator
\* characters the result is the mask again.
C10_GroupingByBytes ==
  Called =>
    /\ ret.value = BytesShown(arg.value, Len(arg.value) \div 8)
    /\ SelectSeq(ret.value, IsNotSeparator) = arg.value

\* A mask of two bytes, grouped: 16 characters and 5 separator characters.
C10_Witness ==
  /\ Called
  /\ Len(arg.value) = 16
  /\ Len(ret.value) = 21
  /\ SubSeq(ret.value, 10, 12) = <<SP, "|", SP>>
  /\ arg.value[8] # arg.value[9]

\* ------------------------------------------------ the loop as a whole

\* C11: in either mode, after any input line is handled the loop is back at
\* reading the next line; no sequence of input lines makes it stop or fail.
C11_LoopNeverFails ==
  /\ pc = "ReadingLine"
  /\ \A i \in 1..Len(log) : log[i].pc = "ReadingLine"

\* C12: in both modes, every output line has been written and flushed to the
\* consumer before the loop reads on: whenever the loop is at a read, nothing
\* is left in the buffer of stdout, and the lines each input line produced
\* had reached the consumer when that line was done.
C12_FlushedBeforeNextRead ==
  /\ stdout_buf = <<>>
  /\ Len(log) > 0 => log[Len(log)].nout = Len(sink)
  /\ ~diff => Len(sink) = Len(log)
  /\ diff => Len(sink) = Cardinality({ i \in 1..Len(log) : Emitted(i) = 1 })

\* A diff line is with the consumer while the next characters wait to be read.
C12_Witness ==
  /\ diff
  /\ pc = "ReadingLine"
  /\ Len(sink) = 1
  /\ stdout_buf = <<>>
  /\ fd # <<>>
  /\ Len(log) = 2
  /\ Emitted(2) = 1

\* ------------------------------------- frames of different lengths

\* Line i is a valid frame whose number of data bytes differs from that of
\* the previous valid frame with its identifier (the one stored).
LengthMismatch(i) ==
  /\ i \in FrameLines
  /\ PrevSameId(i) # 0
  /\ Len(DataOf(log[i].line)) # Len(DataOf(log[PrevSameId(i)].line))

Longer(i) == Len(DataOf(log[i].line)) > Len(DataOf(log[PrevSameId(i)].line))

\* C13 as stated: in diff mode, a valid frame whose number of data bytes
\* differs from that of the sequence stored for its identifier makes the
\* diff computation index out of range: the program fails and emits nothing.
C13_AnyMismatchFails ==
  diff =>
    \A i \in 1..Len(log) :
      LengthMismatch(i) => (log[i].pc = "failed" /\ Emitted(i) = 0)

\* C13 amended: a frame with more data bytes than the stored sequence makes
\* the diff computation index out of range (the program fails, no output
\* line); a frame with fewer data bytes does not: it produces one output
\* line whose mask compares its bits with the first bits of the stored
\* sequence, and the loop goes on.
C13_LongerFailsShorterTruncates ==
  diff =>
    \A i \in 1..Len(log) :
      LengthMismatch(i) =>
        IF Longer(i)
        THEN log[i].pc = "failed" /\ Emitted(i) = 0
        ELSE /\ log[i].pc = "ReadingLine"
             /\ Emitted(i) = 1
             /\ IdShown(OutputOf(i)) = IdOf(log[i].line)
             /\ MaskShown(OutputOf(i))
                  = ExpectedMask(ExpectedBits(DataOf(log[PrevSameId(i)].line)),
                                 ExpectedBits(DataOf(log[i].line)))

\* Two data bytes, then one data byte equal to the first of them: a line of
\* eight '-' is printed and the loop goes on.
C13_Witness ==
  /\ diff
  /\ pc = "ReadingLine"
  /\ Len(log) = 2
  /\ LengthMismatch(2)
  /\ ~Longer(2)
  /\ Emitted(2) = 1
  /\ MaskShown(OutputOf(2)) = <<"-", "-", "-", "-", "-", "-", "-", "-">>

\* --------------------------------------------- one identifier at a time

\* What handling line i left to see: the number of output lines, the loop's
\* position, and the identifier and mask shown if a line was printed.
Observed(i) ==
  [n     |-> Emitted(i),
   pc    |-> log[i].pc,
   shown |-> IF Emitted(i) = 1
             THEN <<IdShown(OutputOf(i)), MaskShown(OutputOf(i))>> ELSE <<>>]

Silent == [n |-> 0, pc |-> "ReadingLine", shown |-> <<>>]

\* The same, as a function of a frame line and the previous frame line with
\* its identifier, and of nothing else.
OutcomeAfter(new, prev) ==
  LET nb == ExpectedBits(DataOf(new))
      ob == ExpectedBits(DataOf(prev))
  IN  IF DataOf(new) = DataOf(prev) THEN Silent
      ELSE IF Len(nb) > Len(ob) THEN [n |-> 0, pc |-> "failed", shown |-> <<>>]
      ELSE [n |-> 1, pc |-> "ReadingLine", shown |-> <<IdOf(new), ExpectedMask(ob, nb)>>]

\* C14: handling one input line changes the history entry of at most one
\* identifier, that of the frame parsed from it, and leaves every other
\* entry as it was; whatever frames of other identifiers came in between,
\* what a frame produces is a function of that frame and of the most recent
\* earlier valid frame with its identifier.
C14_IdentifiersIndependent ==
  diff =>
    \A i \in 1..Len(log) :
      /\ \A id \in DOMAIN HistBefore(i) :
           (i \notin FrameLines \/ id # IdOf(log[i].line)) =>
             /\ id \in DOMAIN log[i].hist
             /\ log[i].hist[id] = HistBefore(i)[id]
      /\ DOMAIN log[i].hist \subseteq
           DOMAIN HistBefore(i) \cup (IF i \in FrameLines THEN {IdOf(log[i].line)} ELSE {})
      /\ i \in FrameLines =>
           Observed(i) = IF PrevSameId(i) = 0 THEN Silent
                         ELSE OutcomeAfter(log[i].line, log[PrevSameId(i)].line)

\* A frame of one identifier, a frame of another, then a changed frame of
\* the first: it is printed against the first line, and the other
\* identifier's entry is untouched.
C14_Witness ==
  /\ diff
  /\ Len(log) = 3
  /\ FrameLines = {1, 2, 3}
  /\ IdOf(log[2].line) # IdOf(log[1].line)
  /\ PrevSameId(3) = 1
  /\ Emitted(3) = 1
  /\ log[3].hist[IdOf(log[2].line)] = log[2].hist[IdOf(log[2].line)]
  /\ log[3].hist[IdOf(log[1].line)] # log[2].hist[IdOf(log[1].line)]

\* ------------------------------------------------- every line printed

\* All valid frames read so far with this identifier have as many data bytes.
UniformLength(id) ==
  \A i, j \in FrameLinesOf(id) : Len(DataOf(log[i].line)) = Len(DataOf(log[j].line))

\* What an output line of diff mode shows between ": | " and " |": the
\* mask with its separators taken out.
MaskText(o) == SelectSeq(SubSeq(o, ColonAt(o) + 1, Len(o) - 1), IsNotSeparator)

\* C17: in diff mode, for an identifier whose frames all carry the same
\* number of data bytes, every output line printed has a mask of exactly
\* 8 x (data bytes of the new frame) characters, each '0', '1' or '-', and
\* at least one of them is not '-'.
C17_PrintedMaskShowsAChange ==
  diff =>
    \A i \in 1..Len(log) :
      Emitted(i) # 0 =>
        /\ Emitted(i) = 1
        /\ i \in FrameLines
        /\ UniformLength(IdOf(log[i].line)) =>
             /\ Len(MaskText(OutputOf(i))) = 8 * Len(DataOf(log[i].line))
             /\ \A p \in 1..Len(MaskText(OutputOf(i))) :
                  MaskText(OutputOf(i))[p] \in {"0", "1", "-"}
             /\ \E p \in 1..Len(MaskText(OutputOf(i))) :
                  MaskText(OutputOf(i))[p] # "-"

\* Frames of two data bytes, one of them printed: 16 mask characters.
C17_Witness ==
  /\ diff
  /\ \E i \in FrameLines :
       /\ Emitted(i) = 1
       /\ UniformLength(IdOf(log[i].line))
       /\ Len(DataOf(log[i].line)) = 2
       /\ Len(MaskText(OutputOf(i))) = 16

\* ------------------------------------------------------ line assembly

\* The first n lines returned, each followed by the line feed that ended it.
RECURSIVE Rejoined(_)
Rejoined(n) ==
  IF n = 0 THEN <<>> ELSE Rejoined(n - 1) \o log[n].line \o <<LF>>

HasNoLF(s) == \A p \in 1..Len(s) : s[p] # LF

\* C15: the lines readLine has returned are the runs of characters between
\* the line feeds of the stream received, in order, line feed excluded,
\* every other character (a carriage return too) kept: put back together
\* with their line feeds, followed by the characters collected for the next
\* line and those not read yet, they are the stream, character for
\* character; what follows the last line feed has not been returned.
C15_LinesSplitAtLineFeeds ==
  /\ Rejoined(Len(log)) \o line \o fd = wire
  /\ \A i \in 1..Len(log) : HasNoLF(log[i].line)
  /\ HasNoLF(line)

\* A line that arrived in two pieces and an empty line, both returned, and
\* the start of a next line collected and waiting for its line feed.
C15_Witness ==
  /\ Len(log) = 2
  /\ Len(log[1].line) = 8
  /\ log[2].line = <<>>
  /\ sent = 3
  /\ fd = <<>>
  /\ line # <<>>
  /\ Len(wire) = Len(log[1].line) + 2 + Len(line)

\* --------------------------------------------------------- timestamps

\* Elapsed times from the first millisecond to more than a day: seconds of
\* one to six digits, with fractions of one to three digits.
SampleSeconds == {0, 1, 9, 10, 99, 100, 999, 1000, 12345, 86399, 99999,
                  100000, 100001, 123456, 999999, 1000000}

SampleFractions == {0, 1, 9, 10, 99, 100, 999}

SampleMillis == { 1000 * sec + frac : sec \in SampleSeconds, frac \in SampleFractions }

InitTime == HelperInit(SampleMillis)

CallFormatRelativeTimeMillis == Return(formatRelativeTimeMillis(arg.value))

SpecTime == InitTime /\ [][CallFormatRelativeTimeMillis]_vars

DecimalChars == <<"0", "1", "2", "3", "4", "5", "6", "7", "8", "9">>

IsDecimal(c) == \E d \in 1..10 : DecimalChars[d] = c

\* The number a string of decimal digits stands for.
RECURSIVE DecimalValue(_)
DecimalValue(digits) ==
  IF digits = <<>> THEN 0
  ELSE 10 * DecimalValue(SubSeq(digits, 1, Len(digits) - 1))
         + (CHOOSE d \in 0..9 : DecimalChars[d + 1] = digits[Len(digits)])

AllDecimal(digits) == \A p \in 1..Len(digits) : IsDecimal(digits[p])

====
